---- MODULE Spec2Model ----
(***************************************************************************)
(* Model of the two provisioning scripts of this repository:               *)
(*   src/ec2-auto-creatation.py    (launch_instances and its main)         *)
(*   src/sagemaker-auto-creation.py (create_endpoint_config,               *)
(*                                   create_endpoint and their main)       *)
(* One run of one script is a record `run`; the outcome of every remote    *)
(* call (run_instances, describe/create/delete_endpoint_config,            *)
(* create_endpoint, sns publish) is an input drawn from a small set.       *)
(* `twin` is a second run of the same script on the same arguments, used   *)
(* by SpecPair only: it receives the same outcomes of the resource calls   *)
(* as `run` and its own outcomes of the publish calls.                     *)
(***************************************************************************)
EXTENDS Integers, FiniteSets, Sequences, TLC

VARIABLES run, twin

vars == <<run, twin>>

\* ------------------------------------------------------------------ bounds
\* largest --count given on the command line
MaxCount == 3
\* largest --max-retry / --max-retries given on the command line
MaxRetry == 3
\* largest --retry-interval given on the command line, in seconds
MaxInterval == 2

\* ------------------------------------------------------- outcomes of calls
\* keys of retry_errors in the compute-instance script
EC2RetryErrors ==
  {"IdempotentParameterMismatch", "InsufficientInstanceCapacity",
   "RequestLimitExceeded", "ServiceUnavailable", "Unsupported"}

\* keys of retry_errors in the managed-endpoint script
SMRetryErrors == {"ThrottlingException", "ServiceUnavailable", "InternalFailure"}

\* error codes a ClientError of run_instances may carry (the five of the
\* table, and some the table does not hold)
EC2ErrorCodes ==
  EC2RetryErrors \cup {"UnauthorizedOperation", "InvalidAMIID.NotFound", "ThrottlingException"}

\* error codes a ClientError of the sagemaker client may carry
SMErrorCodes ==
  SMRetryErrors \cup {"ValidationException", "ResourceLimitExceeded", "Unsupported"}

NoError == [cls |-> "none", code |-> "none"]

ClientError(code) == [cls |-> "ClientError", code |-> code]

\* an exception of the SDK that is no ClientError (a connection failure):
\* `except ClientError` does not catch it, `except Exception` does
OtherException == [cls |-> "Exception", code |-> "EndpointConnectionError"]

\* outcome of one sns publish: it returns, or raises some Exception
PublishOutcomes == {"ok", "error"}

\* ------------------------------------------------- compute-instance script
\* a classifier that looks the code up in the table of the other script
ec2_handle_api_errors_other_table(error_code) ==
  error_code \in {"ThrottlingException", "ServiceUnavailable", "InternalFailure"}

\* handle_api_errors: the code is a key of retry_errors
ec2_handle_api_errors(error_code) == error_code \in EC2RetryErrors

\* the while condition with a unit too few: `instances_remaining > 1`
ec2_loop_condition_one_short(s) ==
  s.instances_remaining > 1 /\ s.retry_attempts < s.max_retry

\* the while condition with an attempt too many: `retry_attempts <= max_retry`
ec2_loop_condition_inclusive(s) ==
  s.instances_remaining > 0 /\ s.retry_attempts <= s.max_retry

\* the while condition of launch_instances
ec2_loop_condition(s) ==
  s.instances_remaining > 0 /\ s.retry_attempts < s.max_retry

\* time.sleep(retry_interval): one more sleep, of retry_interval seconds
time_sleep(s) == [s EXCEPT !.sleeps = @ + 1, !.last_sleep = s.retry_interval]

\* the publish of launch_instances with no try around it
ec2_sns_error_uncaught(publish) == FALSE

\* `except Exception as sns_error` around the publish in launch_instances:
\* the error is printed and goes no further
ec2_sns_error_caught(publish) == TRUE

\* exit(status), also the normal end of main (status 0)
exit(s, status) == [s EXCEPT !.pc = "exit", !.exit_status = status]

\* main's `except Exception`: print, exit(1)
critical_error(s, error) == exit([s EXCEPT !.raised = error], 1)

\* the arguments a run of the compute-instance script starts with
EC2Init ==
  { [script |-> "ec2", pc |-> "main",
     target_count |-> c, max_retry |-> r, retry_interval |-> i,
     instances_remaining |-> 0, retry_attempts |-> 0,
     run_instances_calls |-> 0, launched |-> 0, streak |-> 0,
     last_error |-> NoError,
     sleeps |-> 0, last_sleep |-> 0, publishes |-> 0, notified |-> 0,
     raised |-> NoError, exit_status |-> -1]
    : c \in 0..MaxCount, r \in -1..MaxRetry, i \in 1..MaxInterval }

\* main up to the call of launch_instances, and the first two assignments
\* of launch_instances
ec2_main(s) ==
  IF s.target_count < 1
  THEN exit(s, 1)
  ELSE [s EXCEPT !.pc = "loop",
                 !.instances_remaining = s.target_count,
                 !.retry_attempts = 0]

\* the sns publish after a launch: one more publish attempted, one more
\* notification sent when it returns
sns_publish(s, publish) ==
  [s EXCEPT !.publishes = @ + 1,
            !.notified = IF publish = "ok" THEN @ + 1 ELSE @]

\* a launch that leaves retry_attempts as it is
launch_success_no_reset(s, publish) ==
  LET called == [s EXCEPT !.run_instances_calls = @ + 1,
                          !.launched = @ + 1,
                          !.streak = 0]
      told == sns_publish(called, publish)
  IN  [told EXCEPT !.instances_remaining = @ - 1]

\* one iteration in which run_instances returns an instance
launch_success(s, publish) ==
  LET called == [s EXCEPT !.run_instances_calls = @ + 1,
                          !.launched = @ + 1,
                          !.streak = 0]
      told == sns_publish(called, publish)
  IN  IF publish = "error" /\ ~ec2_sns_error_caught(publish)
      THEN critical_error(told, OtherException)
      ELSE [told EXCEPT !.instances_remaining = @ - 1,
                        !.retry_attempts = 0]

\* a retry that tests the budget before it sleeps
launch_retry_no_final_sleep(s, error_code) ==
  LET failed == [s EXCEPT !.run_instances_calls = @ + 1,
                          !.streak = @ + 1,
                          !.last_error = ClientError(error_code),
                          !.retry_attempts = @ + 1]
  IN  IF failed.retry_attempts < failed.max_retry THEN time_sleep(failed) ELSE failed

\* one iteration in which run_instances raises a ClientError whose code
\* handle_api_errors accepts
launch_retry(s, error_code) ==
  LET failed == [s EXCEPT !.run_instances_calls = @ + 1,
                          !.streak = @ + 1,
                          !.last_error = ClientError(error_code),
                          !.retry_attempts = @ + 1]
  IN  time_sleep(failed)

\* a refused error that is re-raised only after the sleep
launch_raise_after_sleep(s, error) ==
  LET called == [s EXCEPT !.run_instances_calls = @ + 1,
                          !.streak = @ + 1,
                          !.last_error = error]
      failed == IF error.cls = "ClientError"
                THEN time_sleep([called EXCEPT !.retry_attempts = @ + 1])
                ELSE called
  IN  critical_error(failed, error)

\* one iteration in which run_instances raises an error that leaves
\* launch_instances: a ClientError handle_api_errors refuses (counted, then
\* re-raised), or an exception that is no ClientError (not counted)
launch_raise(s, error) ==
  LET called == [s EXCEPT !.run_instances_calls = @ + 1,
                          !.streak = @ + 1,
                          !.last_error = error]
      failed == IF error.cls = "ClientError"
                THEN [called EXCEPT !.retry_attempts = @ + 1]
                ELSE called
  IN  critical_error(failed, error)

\* a return that reports the units left as a failure
launch_return_failure(s) == exit(s, IF s.instances_remaining > 0 THEN 1 ELSE 0)

\* the while condition is false: launch_instances returns, main ends
launch_return(s) == exit(s, 0)

\* errors of run_instances that leave launch_instances
EC2Raised ==
  {ClientError(c) : c \in {c \in EC2ErrorCodes : ~ec2_handle_api_errors(c)}}
  \cup {OtherException}

AtEC2(s, pc) == s.script = "ec2" /\ s.pc = pc

InLoop(s) == AtEC2(s, "loop") /\ ec2_loop_condition(s)

\* ------------------------------------------------- managed-endpoint script
\* handle_api_errors: the code is a key of retry_errors
sm_handle_api_errors(error_code) == error_code \in SMRetryErrors

\* the while condition of create_endpoint
sm_loop_condition(s) == s.retry_attempts < s.max_retries

\* `except Exception as sns_error` around the publish in create_endpoint
sm_sns_error_caught(publish) == TRUE

\* a cleanup whose own error replaces the one of create_endpoint
reraised_after_cleanup_last(create_error, cleanup_error) ==
  IF cleanup_error.cls = "ok" THEN create_error ELSE cleanup_error

\* `except Exception as cleanup_error` around delete_endpoint_config, and the
\* bare `raise` after it: the error that leaves create_endpoint is the
\* ClientError of create_endpoint, whatever the delete did
reraised_after_cleanup(create_error, cleanup_error) == create_error

\* the arguments and the working directory a run of the managed-endpoint
\* script starts with
SMInit ==
  { [script |-> "sagemaker", pc |-> "main",
     max_retries |-> r, retry_interval |-> i, config_file_exists |-> f,
     describe_result |-> "none",
     create_endpoint_config_calls |-> 0, config_created |-> FALSE,
     retry_attempts |-> 0, create_endpoint_calls |-> 0,
     endpoint_created |-> FALSE, endpoint_error |-> NoError,
     delete_calls |-> 0, delete_result |-> "none",
     sleeps |-> 0, last_sleep |-> 0, publishes |-> 0, notified |-> 0,
     raised |-> NoError, exit_status |-> -1]
    : r \in -1..MaxRetry, i \in 1..MaxInterval, f \in BOOLEAN }

\* what describe_endpoint_config may do: return the configuration, or raise
DescribeOutcomes ==
  {[cls |-> "found", code |-> "none"]}
  \cup {ClientError(c) : c \in SMErrorCodes} \cup {OtherException}

\* what a create or delete call of the sagemaker client may do
SMCallOutcomes ==
  {[cls |-> "ok", code |-> "none"]}
  \cup {ClientError(c) : c \in SMErrorCodes} \cup {OtherException}

\* main up to the call of create_endpoint_config, and its os.path.exists
\* test: with config.json present it returns None, main skips
\* create_endpoint and ends
sm_main(s) ==
  IF s.config_file_exists
  THEN exit(s, 0)
  ELSE [s EXCEPT !.pc = "describe"]

\* a config_exists whose answer create_endpoint_config does not act on
config_exists_ignored(s, outcome) ==
  IF outcome.cls = "found"
  THEN [s EXCEPT !.describe_result = "found", !.pc = "create_config"]
  ELSE IF outcome.cls = "ClientError" /\ outcome.code = "ValidationException"
  THEN [s EXCEPT !.describe_result = "absent", !.pc = "create_config"]
  ELSE critical_error([s EXCEPT !.describe_result = "error"], outcome)

\* config_exists and the test on it: True when the describe returns, False
\* on a ClientError with code ValidationException, any other error raised
config_exists(s, outcome) ==
  IF outcome.cls = "found"
  THEN exit([s EXCEPT !.describe_result = "found"], 0)
  ELSE IF outcome.cls = "ClientError" /\ outcome.code = "ValidationException"
  THEN [s EXCEPT !.describe_result = "absent", !.pc = "create_config"]
  ELSE critical_error([s EXCEPT !.describe_result = "error"], outcome)

\* a configuration phase whose failure main does not look at: the endpoint
\* phase follows a retryable error of the create call
create_endpoint_config_unchecked(s, outcome) ==
  LET called == [s EXCEPT !.create_endpoint_config_calls = @ + 1]
  IN  IF outcome.cls = "ok"
      THEN [called EXCEPT !.config_created = TRUE,
                          !.pc = "create_endpoint",
                          !.retry_attempts = 0]
      ELSE IF outcome.cls = "ClientError" /\ sm_handle_api_errors(outcome.code)
      THEN [called EXCEPT !.pc = "create_endpoint", !.retry_attempts = 0]
      ELSE critical_error(called, outcome)

\* the try block of create_endpoint_config and main's `if config_name`
create_endpoint_config(s, outcome) ==
  LET called == [s EXCEPT !.create_endpoint_config_calls = @ + 1]
  IN  IF outcome.cls = "ok"
      THEN [called EXCEPT !.config_created = TRUE,
                          !.pc = "create_endpoint",
                          !.retry_attempts = 0]
      ELSE IF outcome.cls = "ClientError" /\ sm_handle_api_errors(outcome.code)
      THEN exit(called, 0)
      ELSE critical_error(called, outcome)

\* one iteration in which create_endpoint (the call) returns
endpoint_success(s, publish) ==
  LET called == [s EXCEPT !.create_endpoint_calls = @ + 1,
                          !.endpoint_created = TRUE]
      told == sns_publish(called, publish)
  IN  IF publish = "error" /\ ~sm_sns_error_caught(publish)
      THEN critical_error(told, OtherException)
      ELSE exit(told, 0)

\* one iteration in which the call raises a ClientError whose code
\* handle_api_errors accepts
endpoint_retry(s, error_code) ==
  LET failed == [s EXCEPT !.create_endpoint_calls = @ + 1,
                          !.endpoint_error = ClientError(error_code),
                          !.retry_attempts = @ + 1]
  IN  time_sleep(failed)

\* delete_endpoint_config in the cleanup
delete_endpoint_config(s, outcome) ==
  [s EXCEPT !.delete_calls = @ + 1,
            !.delete_result = IF outcome.cls = "ok" THEN "ok" ELSE "error"]

\* one iteration in which the call raises an error that leaves
\* create_endpoint: a ClientError handle_api_errors refuses (counted, the
\* configuration deleted, re-raised), or an exception that is no ClientError
endpoint_raise(s, error, cleanup) ==
  LET called == [s EXCEPT !.create_endpoint_calls = @ + 1,
                          !.endpoint_error = error]
  IN  IF error.cls = "ClientError"
      THEN critical_error(
             delete_endpoint_config([called EXCEPT !.retry_attempts = @ + 1], cleanup),
             reraised_after_cleanup(error, cleanup))
      ELSE critical_error(called, error)

\* the while condition is false: create_endpoint returns None, main ends
endpoint_return(s) == exit(s, 0)

\* errors of the create_endpoint call that leave create_endpoint
SMRaised ==
  {ClientError(c) : c \in {c \in SMErrorCodes : ~sm_handle_api_errors(c)}}
  \cup {OtherException}

AtSM(s, pc) == s.script = "sagemaker" /\ s.pc = pc

InEndpointLoop(s) == AtSM(s, "create_endpoint") /\ sm_loop_condition(s)

\* ---------------------------------------------------------------- actions
EC2Main ==
  /\ AtEC2(run, "main")
  /\ run' = ec2_main(run)
  /\ UNCHANGED twin

RunInstancesOk ==
  /\ InLoop(run)
  /\ \E publish \in PublishOutcomes : run' = launch_success(run, publish)
  /\ UNCHANGED twin

RunInstancesRetry ==
  /\ InLoop(run)
  /\ \E code \in {c \in EC2ErrorCodes : ec2_handle_api_errors(c)} :
       run' = launch_retry(run, code)
  /\ UNCHANGED twin

RunInstancesRaise ==
  /\ InLoop(run)
  /\ \E error \in EC2Raised : run' = launch_raise(run, error)
  /\ UNCHANGED twin

LaunchReturn ==
  /\ AtEC2(run, "loop")
  /\ ~ec2_loop_condition(run)
  /\ run' = launch_return(run)
  /\ UNCHANGED twin

SMMain ==
  /\ AtSM(run, "main")
  /\ run' = sm_main(run)
  /\ UNCHANGED twin

DescribeEndpointConfig ==
  /\ AtSM(run, "describe")
  /\ \E outcome \in DescribeOutcomes : run' = config_exists(run, outcome)
  /\ UNCHANGED twin

CreateEndpointConfig ==
  /\ AtSM(run, "create_config")
  /\ \E outcome \in SMCallOutcomes : run' = create_endpoint_config(run, outcome)
  /\ UNCHANGED twin

CreateEndpointOk ==
  /\ InEndpointLoop(run)
  /\ \E publish \in PublishOutcomes : run' = endpoint_success(run, publish)
  /\ UNCHANGED twin

CreateEndpointRetry ==
  /\ InEndpointLoop(run)
  /\ \E code \in {c \in SMErrorCodes : sm_handle_api_errors(c)} :
       run' = endpoint_retry(run, code)
  /\ UNCHANGED twin

CreateEndpointRaise ==
  /\ InEndpointLoop(run)
  /\ \E error \in SMRaised, cleanup \in SMCallOutcomes :
       run' = endpoint_raise(run, error, cleanup)
  /\ UNCHANGED twin

EndpointReturn ==
  /\ AtSM(run, "create_endpoint")
  /\ ~sm_loop_condition(run)
  /\ run' = endpoint_return(run)
  /\ UNCHANGED twin

Init ==
  /\ run \in EC2Init \cup SMInit
  /\ twin = "none"

Next ==
  \/ EC2Main
  \/ RunInstancesOk
  \/ RunInstancesRetry
  \/ RunInstancesRaise
  \/ LaunchReturn
  \/ SMMain
  \/ DescribeEndpointConfig
  \/ CreateEndpointConfig
  \/ CreateEndpointOk
  \/ CreateEndpointRetry
  \/ CreateEndpointRaise
  \/ EndpointReturn

Spec == Init /\ [][Next]_vars


\* a sequential script takes its next step whenever it has one (every remote
\* call returns or raises)
FairSpec == Spec /\ WF_vars(Next)

\* --------------------------------------------- two runs, the same outcomes
\* `run` and `twin` start from the same arguments and see the same outcome
\* of every resource call; each sees its own outcome of every publish call
PairInit ==
  /\ run \in EC2Init \cup SMInit
  /\ twin = run

PairEC2Main ==
  /\ AtEC2(run, "main") /\ AtEC2(twin, "main")
  /\ run' = ec2_main(run)
  /\ twin' = ec2_main(twin)

PairRunInstancesOk ==
  /\ InLoop(run) /\ InLoop(twin)
  /\ \E p1 \in PublishOutcomes, p2 \in PublishOutcomes :
       /\ run' = launch_success(run, p1)
       /\ twin' = launch_success(twin, p2)

PairRunInstancesRetry ==
  /\ InLoop(run) /\ InLoop(twin)
  /\ \E code \in {c \in EC2ErrorCodes : ec2_handle_api_errors(c)} :
       /\ run' = launch_retry(run, code)
       /\ twin' = launch_retry(twin, code)

PairRunInstancesRaise ==
  /\ InLoop(run) /\ InLoop(twin)
  /\ \E error \in EC2Raised :
       /\ run' = launch_raise(run, error)
       /\ twin' = launch_raise(twin, error)

PairLaunchReturn ==
  /\ AtEC2(run, "loop") /\ AtEC2(twin, "loop")
  /\ ~ec2_loop_condition(run) /\ ~ec2_loop_condition(twin)
  /\ run' = launch_return(run)
  /\ twin' = launch_return(twin)

PairSMMain ==
  /\ AtSM(run, "main") /\ AtSM(twin, "main")
  /\ run' = sm_main(run)
  /\ twin' = sm_main(twin)

PairDescribeEndpointConfig ==
  /\ AtSM(run, "describe") /\ AtSM(twin, "describe")
  /\ \E outcome \in DescribeOutcomes :
       /\ run' = config_exists(run, outcome)
       /\ twin' = config_exists(twin, outcome)

PairCreateEndpointConfig ==
  /\ AtSM(run, "create_config") /\ AtSM(twin, "create_config")
  /\ \E outcome \in SMCallOutcomes :
       /\ run' = create_endpoint_config(run, outcome)
       /\ twin' = create_endpoint_config(twin, outcome)

PairCreateEndpointOk ==
  /\ InEndpointLoop(run) /\ InEndpointLoop(twin)
  /\ \E p1 \in PublishOutcomes, p2 \in PublishOutcomes :
       /\ run' = endpoint_success(run, p1)
       /\ twin' = endpoint_success(twin, p2)

PairCreateEndpointRetry ==
  /\ InEndpointLoop(run) /\ InEndpointLoop(twin)
  /\ \E code \in {c \in SMErrorCodes : sm_handle_api_errors(c)} :
       /\ run' = endpoint_retry(run, code)
       /\ twin' = endpoint_retry(twin, code)

PairCreateEndpointRaise ==
  /\ InEndpointLoop(run) /\ InEndpointLoop(twin)
  /\ \E error \in SMRaised, cleanup \in SMCallOutcomes :
       /\ run' = endpoint_raise(run, error, cleanup)
       /\ twin' = endpoint_raise(twin, error, cleanup)

PairEndpointReturn ==
  /\ AtSM(run, "create_endpoint") /\ AtSM(twin, "create_endpoint")
  /\ ~sm_loop_condition(run) /\ ~sm_loop_condition(twin)
  /\ run' = endpoint_return(run)
  /\ twin' = endpoint_return(twin)

PairNext ==
  \/ PairEC2Main
  \/ PairRunInstancesOk
  \/ PairRunInstancesRetry
  \/ PairRunInstancesRaise
  \/ PairLaunchReturn
  \/ PairSMMain
  \/ PairDescribeEndpointConfig
  \/ PairCreateEndpointConfig
  \/ PairCreateEndpointOk
  \/ PairCreateEndpointRetry
  \/ PairCreateEndpointRaise
  \/ PairEndpointReturn

SpecPair == PairInit /\ [][PairNext]_vars

\* ------------------------------------------------------------------ claims
\* launch_instances was called with desiredCount >= 1 and maxRetries >= 0
Launching(s) ==
  /\ s.script = "ec2"
  /\ s.pc # "main"
  /\ s.target_count >= 1
  /\ s.max_retry >= 0

\* every run_instances call so far failed with a retryable error
AlwaysRetryable(s) == Launching(s) /\ s.launched = 0 /\ s.raised = NoError

\* where launch_instances may stop
LaunchPost(s) ==
  \/ s.instances_remaining = 0
  \/ s.retry_attempts >= s.max_retry
  \/ s.raised # NoError

\* C1: with desiredCount >= 1 and maxRetries >= 0, whatever the create calls
\* do, launch_instances terminates, and when it has, remaining = 0, or
\* attempts >= maxRetries, or an error was raised to the caller.
C1_LaunchTerminates ==
  /\ Launching(run) ~> (Launching(run) /\ run.pc = "exit" /\ LaunchPost(run))
  /\ [](Launching(run) /\ run.pc = "exit" => LaunchPost(run))

\* a run that stopped on its budget, with units left and no error raised
C1_Witness ==
  /\ Launching(run) /\ run.pc = "exit"
  /\ run.instances_remaining > 0
  /\ run.max_retry >= 2
  /\ run.retry_attempts = run.max_retry
  /\ run.raised = NoError

\* C2: in launch_instances the counters stay in range:
\* 0 <= instances_remaining <= target_count, 0 <= retry_attempts <= max_retry.
C2_CountersInRange ==
  Launching(run) =>
    /\ 0 <= run.instances_remaining /\ run.instances_remaining <= run.target_count
    /\ 0 <= run.retry_attempts /\ run.retry_attempts <= run.max_retry

\* both counters at their limits: the last unit launched, or the budget used
C2_Witness ==
  /\ Launching(run)
  /\ run.max_retry >= 2
  /\ run.retry_attempts = run.max_retry
  /\ run.launched >= 1
  /\ run.instances_remaining >= 1

\* C3: with maxRetries = N and create calls that always fail with a retryable
\* code, launch_instances ends after exactly N calls with nothing launched,
\* and create_endpoint ends after exactly N calls with no endpoint.
C3_ExactlyNAttempts ==
  /\ (AlwaysRetryable(run) /\ run.pc = "exit") =>
        /\ run.run_instances_calls = run.max_retry
        /\ run.instances_remaining = run.target_count
  /\ (/\ run.script = "sagemaker" /\ run.pc = "exit"
      /\ run.config_created /\ ~run.endpoint_created
      /\ run.raised = NoError /\ run.max_retries >= 0) =>
        run.create_endpoint_calls = run.max_retries

\* a run of launch_instances that used a budget of two or more on failures
C3_Witness ==
  /\ AlwaysRetryable(run) /\ run.pc = "exit"
  /\ run.max_retry >= 2
  /\ run.run_instances_calls = run.max_retry

\* C4 as stated: with N >= 1 and create calls that always fail with a
\* retryable code, launch_instances sleeps at most N-1 times.
C4_AtMostNMinusOneSleeps ==
  (AlwaysRetryable(run) /\ run.max_retry >= 1) => run.sleeps <= run.max_retry - 1

\* C4 as amended: with N >= 1 and create calls that always fail with a
\* retryable code, launch_instances sleeps once after every failed call, the
\* last one too: never more than N times, and exactly N times when it ends.
C4_ExactlyNSleeps ==
  (AlwaysRetryable(run) /\ run.max_retry >= 1) =>
    /\ run.sleeps = run.run_instances_calls
    /\ run.sleeps <= run.max_retry
    /\ (run.pc = "exit" => run.sleeps = run.max_retry)

\* a run that ended on its budget after sleeping N times
C4_Witness ==
  /\ AlwaysRetryable(run) /\ run.pc = "exit"
  /\ run.max_retry >= 2
  /\ run.sleeps = run.max_retry

\* C5: a launch after k < maxRetries retryable failures sets attempts to 0
\* and takes one off remaining, so at every loop test attempts counts only
\* the failures since the last launch: the budget is per unit.
C5_FreshBudgetPerUnit ==
  /\ [](AtEC2(run, "loop") => run.retry_attempts = run.streak)
  /\ [][(run.script = "ec2" /\ run'.launched = run.launched + 1) =>
          /\ run.retry_attempts < run.max_retry
          /\ run'.retry_attempts = 0
          /\ run'.instances_remaining = run.instances_remaining - 1
          /\ run'.pc = "loop"]_vars

\* the first launch came after N-1 failures, and another unit is due, after
\* which the run fails more often than one budget allows
C5_Witness ==
  /\ AtEC2(run, "loop")
  /\ run.max_retry >= 2
  /\ run.launched = 1
  /\ run.instances_remaining >= 1
  /\ run.sleeps > run.max_retry
  /\ run.retry_attempts = run.max_retry - 1

\* C6: with desiredCount = C >= 1, maxRetries >= 1 and create calls that all
\* succeed, launch_instances ends after exactly C calls, C launches and no
\* sleep, with remaining = 0.
C6_AllSucceed ==
  (/\ Launching(run) /\ run.pc = "exit"
   /\ run.max_retry >= 1
   /\ run.run_instances_calls = run.launched) =>
     /\ run.run_instances_calls = run.target_count
     /\ run.launched = run.target_count
     /\ run.sleeps = 0
     /\ run.instances_remaining = 0
     /\ run.exit_status = 0

\* two or more units launched without a failure, no notification delivered
C6_Witness ==
  /\ Launching(run) /\ run.pc = "exit"
  /\ run.target_count >= 2
  /\ run.launched = run.target_count
  /\ run.run_instances_calls = run.launched
  /\ run.publishes = run.launched
  /\ run.notified = 0

\* C7: a run of the managed-endpoint script that created the configuration
\* and ended without the endpoint has attempted to delete the configuration.
C7_NoOrphanedConfig ==
  (/\ run.script = "sagemaker" /\ run.pc = "exit"
   /\ run.config_created /\ ~run.endpoint_created) =>
     run.delete_calls >= 1

\* the create_endpoint call last failed with a code handle_api_errors refuses
EndpointFatal(s) ==
  /\ s.script = "sagemaker"
  /\ s.endpoint_error.cls = "ClientError"
  /\ s.endpoint_error.code \notin SMRetryErrors

\* C8: when a create_endpoint call fails with a non-retryable code, the
\* configuration's delete is called exactly once, the error of the create
\* call (not the delete's) reaches main and the exit status is 1, whether
\* the delete succeeded or not; no create_endpoint call or sleep follows.
C8_CleanupOnceOriginalError ==
  /\ [](EndpointFatal(run) =>
          /\ run.delete_calls = 1
          /\ run.raised = run.endpoint_error
          /\ run.pc = "exit"
          /\ run.exit_status = 1)
  /\ [][EndpointFatal(run) =>
          /\ run'.create_endpoint_calls = run.create_endpoint_calls
          /\ run'.sleeps = run.sleeps
          /\ run'.delete_calls = run.delete_calls]_vars

\* a non-retryable failure after a retry, whose cleanup failed too
C8_Witness ==
  /\ EndpointFatal(run)
  /\ run.sleeps >= 1
  /\ run.delete_result = "error"
  /\ run.exit_status = 1

\* the configuration phase found the artifact: config.json, or the describe
ConfigFound(s) ==
  /\ s.script = "sagemaker"
  /\ \/ s.config_file_exists /\ s.pc # "main"
     \/ s.describe_result = "found"

\* C9: when config.json is present or describe_endpoint_config finds the
\* configuration, the run makes no create_endpoint_config, create_endpoint
\* or delete_endpoint_config call and ends with exit status 0.
C9_ExistingConfigNoMutation ==
  /\ ConfigFound(run) =>
       /\ run.pc = "exit"
       /\ run.exit_status = 0
  /\ (run.script = "sagemaker" /\ (run.config_file_exists \/ run.describe_result = "found")) =>
       /\ run.create_endpoint_config_calls = 0
       /\ run.create_endpoint_calls = 0
       /\ run.delete_calls = 0
       /\ run.exit_status # 1

\* the describe found the configuration and the run is over
C9_Witness ==
  /\ run.script = "sagemaker"
  /\ ~run.config_file_exists
  /\ run.describe_result = "found"
  /\ run.pc = "exit"

\* what a run shows but for the notifications delivered
Provisioned(s) == [s EXCEPT !.notified = 0]

\* C10: two runs on the same arguments with the same outcomes of the create
\* calls, whose publish calls succeed or fail independently, make the same
\* calls, hold the same counters, raise the same error and exit alike.
C10_NotifierDoesNotInterfere == Provisioned(run) = Provisioned(twin)

\* two finished runs of launch_instances, one with every notification
\* delivered and one with none
C10_Witness ==
  /\ Launching(run) /\ run.pc = "exit"
  /\ run.launched >= 2
  /\ run.notified = run.launched
  /\ twin.notified = 0

\* C11: when a run_instances call fails with a code handle_api_errors
\* refuses, launch_instances stops at once: no sleep, no further call, the
\* error reaches main and the exit status is 1; the instances launched
\* before stay as they are.
C11_FatalAbortsAtOnce ==
  /\ []((run.script = "ec2" /\ run.raised.cls = "ClientError") =>
          /\ run.raised = run.last_error
          /\ run.raised.code \notin EC2RetryErrors
          /\ run.pc = "exit"
          /\ run.exit_status = 1)
  /\ [][(run.script = "ec2" /\ run'.raised.cls = "ClientError") =>
          /\ run'.sleeps = run.sleeps
          /\ run'.launched = run.launched
          /\ run'.instances_remaining = run.instances_remaining
          /\ run'.run_instances_calls =
               run.run_instances_calls + (IF run.raised = NoError THEN 1 ELSE 0)]_vars

\* a refused error after one launch and one retry
C11_Witness ==
  /\ Launching(run)
  /\ run.raised.cls = "ClientError"
  /\ run.launched >= 1
  /\ run.sleeps >= 1
  /\ run.exit_status = 1

\* C12: after a run_instances call fails with the code 'Unsupported', the
\* create call is never made again.
C12_UnsupportedNeverRetried ==
  [][(run.script = "ec2" /\ run.last_error = ClientError("Unsupported")) =>
       run'.run_instances_calls = run.run_instances_calls]_vars

\* the last create call of a finished run failed
LastCreateFailed(s) ==
  /\ s.pc = "exit"
  /\ \/ s.script = "ec2" /\ s.streak >= 1
     \/ s.script = "sagemaker" /\ s.create_endpoint_config_calls >= 1 /\ ~s.config_created
     \/ s.script = "sagemaker" /\ s.create_endpoint_calls >= 1 /\ ~s.endpoint_created

\* C13: an error of a create call (run_instances, create_endpoint_config,
\* create_endpoint) is followed by a retry of that call or by exit status 1:
\* a run whose last create call failed ends with status 1.
C13_NoCreateErrorDiscarded == LastCreateFailed(run) => run.exit_status = 1

\* C14: when retry_attempts has reached max_retry with units left,
\* launch_instances returns without an error and the exit status is 0, as
\* for a full success.
C14_SilentExhaustion ==
  /\ []((Launching(run) /\ run.pc = "exit" /\ run.raised = NoError) =>
          run.exit_status = 0)
  /\ [][(/\ Launching(run) /\ run.pc = "loop"
         /\ run.instances_remaining > 0
         /\ run.retry_attempts >= run.max_retry) =>
          /\ run'.pc = "exit"
          /\ run'.exit_status = 0
          /\ run'.raised = NoError
          /\ run'.instances_remaining = run.instances_remaining]_vars

\* a run that gave up with units left and status 0, after one launch
C14_Witness ==
  /\ Launching(run) /\ run.pc = "exit"
  /\ run.launched >= 1
  /\ run.instances_remaining >= 1
  /\ run.max_retry >= 2
  /\ run.retry_attempts = run.max_retry
  /\ run.exit_status = 0

\* the codes the claim lists for compute instances
C15_InstanceCodes ==
  {"IdempotentParameterMismatch", "InsufficientInstanceCapacity",
   "RequestLimitExceeded", "ServiceUnavailable", "Unsupported"}

\* the codes the claim lists for managed endpoints
C15_EndpointCodes == {"ThrottlingException", "ServiceUnavailable", "InternalFailure"}

\* C15: the classifier answers retryable exactly for the listed codes of its
\* resource kind, and a loop that has seen a ClientError goes on exactly
\* when its code is listed, whatever the counters hold.
C15_ClassifierIsMembership ==
  /\ \A c \in EC2ErrorCodes \cup SMErrorCodes :
       /\ ec2_handle_api_errors(c) <=> c \in C15_InstanceCodes
       /\ sm_handle_api_errors(c) <=> c \in C15_EndpointCodes
  /\ (run.script = "ec2" /\ run.last_error.cls = "ClientError") =>
       (run.raised = NoError <=> run.last_error.code \in C15_InstanceCodes)
  /\ (run.script = "sagemaker" /\ run.endpoint_error.cls = "ClientError") =>
       (run.raised = NoError <=> run.endpoint_error.code \in C15_EndpointCodes)

\* a code of the endpoint table refused by the instance classifier, after
\* retries and a launch
C15_Witness ==
  /\ Launching(run)
  /\ run.last_error = ClientError("ThrottlingException")
  /\ run.raised = run.last_error
  /\ run.launched >= 1
  /\ run.retry_attempts >= 2

\* C16: for consecutive retryable failures of one unit, launch_instances
\* sleeps longer before each retry than before the one before it.
C16_ExponentialBackoff ==
  [][(/\ run.script = "ec2"
      /\ run.streak >= 1
      /\ run'.sleeps = run.sleeps + 1) =>
       run'.last_sleep > run.last_sleep]_vars

\* C17: a create_endpoint_config call that fails with a retryable code,
\* with budget left, is made again.
C17_ConfigCreateRetried ==
  (/\ run.script = "sagemaker" /\ run.pc = "exit"
   /\ run.max_retries >= 2
   /\ run.create_endpoint_config_calls >= 1
   /\ ~run.config_created
   /\ run.raised = NoError) =>
     run.create_endpoint_config_calls >= 2

\* the run_instances calls that failed with a retryable code
RetryableFailures(s) ==
  s.run_instances_calls - s.launched - (IF s.raised # NoError THEN 1 ELSE 0)

C19_EndpointPhaseOrder ==
  /\ [](run.script = "sagemaker" =>
          /\ run.delete_calls >= 1 =>
               /\ run.config_created
               /\ EndpointFatal(run)
               /\ ~run.endpoint_created
          /\ run.create_endpoint_calls >= 1 => run.config_created
          /\ run.endpoint_created => run.pc = "exit")
  /\ [][(run.script = "sagemaker" /\ run.endpoint_created) =>
          /\ run'.create_endpoint_calls = run.create_endpoint_calls
          /\ run'.delete_calls = run.delete_calls]_vars

\* a configuration created, then deleted after a retry and a refused error
C19_Witness ==
  /\ run.script = "sagemaker"
  /\ run.config_created
  /\ run.delete_calls = 1
  /\ run.delete_result = "ok"
  /\ run.create_endpoint_calls >= 2

\* C20: in launch_instances the launches and instances_remaining add up to
\* target_count, and one publish has been attempted for each launch and
\* none for a failed create.
C20_LaunchedPlusRemaining ==
  (run.script = "ec2" /\ run.pc # "main" /\ run.target_count >= 1) =>
    /\ run.launched + run.instances_remaining = run.target_count
    /\ run.publishes = run.launched
    /\ run.notified <= run.publishes

\* launches and failures mixed, one publish failed, units left
C20_Witness ==
  /\ AtEC2(run, "loop")
  /\ run.launched >= 2
  /\ run.instances_remaining >= 1
  /\ run.sleeps >= 1
  /\ run.notified = 1

====
